---- MODULE Spec2Model ----
(***************************************************************************)
(* Civic-sense scraper: the session-scoped duplicate/relevance pipeline    *)
(* and the time-boxed fetch scheduler of CivicSenseCommandScraper, with    *)
(* the response parser of RedditScraper that feeds it.                     *)
(*                                                                         *)
(* Text is a sequence of one-character strings, so that lower(), strip()   *)
(* and the substring test `term in text` are computed, not assumed.        *)
(* Time is in whole seconds.                                               *)
(***************************************************************************)
EXTENDS Integers, Sequences, FiniteSets, TLC

\* ------------------------------------------------------------------ text

UPPER ==
    << "A","B","C","D","E","F","G","H","I","J","K","L","M",
       "N","O","P","Q","R","S","T","U","V","W","X","Y","Z" >>

LOWER ==
    << "a","b","c","d","e","f","g","h","i","j","k","l","m",
       "n","o","p","q","r","s","t","u","v","w","x","y","z" >>

WHITESPACE == {" ", "\n", "\t"}

\* str.lower() on one character
LowerChar(c) ==
    IF \E i \in 1..Len(UPPER) : UPPER[i] = c
    THEN LOWER[CHOOSE i \in 1..Len(UPPER) : UPPER[i] = c]
    ELSE c

\* str.lower()
Lower(s) == [i \in 1..Len(s) |-> LowerChar(s[i])]

\* str.strip(): drop leading and trailing whitespace
Strip(s) ==
    LET keep == {i \in 1..Len(s) : s[i] \notin WHITESPACE}
    IN  IF keep = {} THEN <<>>
        ELSE LET lo == CHOOSE i \in keep : \A j \in keep : i <= j
                 hi == CHOOSE i \in keep : \A j \in keep : j <= i
             IN  SubSeq(s, lo, hi)

\* Python `term in text` on strings
Contains(text, term) ==
    \E i \in 0..(Len(text) - Len(term)) : SubSeq(text, i + 1, i + Len(term)) = term

\* any(term in text for term in terms)
AnyIn(terms, text) == \E i \in 1..Len(terms) : Contains(text, terms[i])

\* f"{a} {b}"
Joined(a, b) == a \o <<" ">> \o b

\* s[:n]
Prefix(s, n) == SubSeq(s, 1, IF Len(s) < n THEN Len(s) ELSE n)

\* str.replace('\n', ' ')
ReplaceNewlines(s) == [i \in 1..Len(s) |-> IF s[i] = "\n" THEN " " ELSE s[i]]

\* ------------------------------------------------- vocabulary (literals)

all_terms ==
    << <<"c","i","v","i","c"," ","s","e","n","s","e">>, <<"c","i","v","i","c"," ","r","e","s","p","o","n","s","i","b","i","l","i","t","y">>,
       <<"c","i","v","i","c"," ","a","w","a","r","e","n","e","s","s">>, <<"c","i","v","i","c"," ","d","u","t","y">>,
       <<"r","o","a","d"," ","r","a","g","e">>, <<"r","o","a","d"," ","a","n","g","e","r">>,
       <<"d","r","i","v","e","r"," ","r","a","g","e">>, <<"t","r","a","f","f","i","c"," ","r","a","g","e">>,
       <<"b","a","d"," ","d","r","i","v","i","n","g">>, <<"r","a","s","h"," ","d","r","i","v","i","n","g">>,
       <<"r","e","c","k","l","e","s","s"," ","d","r","i","v","i","n","g">>, <<"p","o","o","r"," ","d","r","i","v","i","n","g">>,
       <<"d","a","n","g","e","r","o","u","s"," ","d","r","i","v","i","n","g">>, <<"t","r","a","f","f","i","c"," ","v","i","o","l","a","t","i","o","n">>,
       <<"t","r","a","f","f","i","c"," ","r","u","l","e","s">>, <<"t","r","a","f","f","i","c"," ","l","a","w">>,
       <<"d","r","i","v","i","n","g"," ","r","u","l","e","s">>, <<"s","i","g","n","a","l"," ","j","u","m","p">>,
       <<"r","e","d"," ","l","i","g","h","t">>, <<"w","r","o","n","g"," ","s","i","d","e">>,
       <<"h","e","l","m","e","t"," ","v","i","o","l","a","t","i","o","n">>, <<"d","r","u","n","k"," ","d","r","i","v","i","n","g">>,
       <<"r","o","a","d"," ","s","a","f","e","t","y">>, <<"d","r","i","v","i","n","g"," ","s","a","f","e","t","y">>,
       <<"t","r","a","f","f","i","c"," ","s","a","f","e","t","y">>, <<"a","c","c","i","d","e","n","t"," ","p","r","e","v","e","n","t","i","o","n">>,
       <<"l","a","n","e"," ","d","i","s","c","i","p","l","i","n","e">>, <<"l","a","n","e"," ","c","u","t","t","i","n","g">>,
       <<"i","m","p","r","o","p","e","r"," ","l","a","n","e">>, <<"l","a","n","e"," ","v","i","o","l","a","t","i","o","n">>,
       <<"h","o","n","k","i","n","g">>, <<"u","n","n","e","c","e","s","s","a","r","y"," ","h","o","n","k","i","n","g">>,
       <<"h","o","r","n"," ","m","i","s","u","s","e">>, <<"n","o","i","s","e"," ","p","o","l","l","u","t","i","o","n">>,
       <<"p","a","r","k","i","n","g"," ","v","i","o","l","a","t","i","o","n">>, <<"w","r","o","n","g"," ","p","a","r","k","i","n","g">>,
       <<"b","l","o","c","k","i","n","g"," ","t","r","a","f","f","i","c">>, <<"d","o","u","b","l","e"," ","p","a","r","k","i","n","g">>,
       <<"o","v","e","r","s","p","e","e","d","i","n","g">>, <<"s","p","e","e","d"," ","l","i","m","i","t">>,
       <<"r","e","c","k","l","e","s","s"," ","s","p","e","e","d">>, <<"d","a","n","g","e","r","o","u","s"," ","s","p","e","e","d">> >>

required_terms ==
    << <<"c","i","v","i","c"," ","s","e","n","s","e">>, <<"c","i","v","i","c"," ","r","e","s","p","o","n","s","i","b","i","l","i","t","y">>,
       <<"c","i","v","i","c"," ","a","w","a","r","e","n","e","s","s">>, <<"c","i","v","i","c"," ","d","u","t","y">>,
       <<"r","o","a","d"," ","r","a","g","e">>, <<"r","o","a","d"," ","a","n","g","e","r">>,
       <<"d","r","i","v","e","r"," ","r","a","g","e">>, <<"t","r","a","f","f","i","c"," ","r","a","g","e">>,
       <<"b","a","d"," ","d","r","i","v","i","n","g">>, <<"r","a","s","h"," ","d","r","i","v","i","n","g">>,
       <<"r","e","c","k","l","e","s","s"," ","d","r","i","v","i","n","g">>, <<"p","o","o","r"," ","d","r","i","v","i","n","g">>,
       <<"d","a","n","g","e","r","o","u","s"," ","d","r","i","v","i","n","g">>, <<"t","r","a","f","f","i","c"," ","v","i","o","l","a","t","i","o","n">>,
       <<"t","r","a","f","f","i","c"," ","r","u","l","e","s">>, <<"t","r","a","f","f","i","c"," ","l","a","w">>,
       <<"d","r","i","v","i","n","g"," ","r","u","l","e","s">>, <<"s","i","g","n","a","l"," ","j","u","m","p">>,
       <<"r","e","d"," ","l","i","g","h","t">>, <<"w","r","o","n","g"," ","s","i","d","e">>,
       <<"h","e","l","m","e","t"," ","v","i","o","l","a","t","i","o","n">>, <<"d","r","u","n","k"," ","d","r","i","v","i","n","g">>,
       <<"r","o","a","d"," ","s","a","f","e","t","y">>, <<"d","r","i","v","i","n","g"," ","s","a","f","e","t","y">>,
       <<"t","r","a","f","f","i","c"," ","s","a","f","e","t","y">>, <<"a","c","c","i","d","e","n","t"," ","p","r","e","v","e","n","t","i","o","n">>,
       <<"l","a","n","e"," ","d","i","s","c","i","p","l","i","n","e">>, <<"l","a","n","e"," ","c","u","t","t","i","n","g">>,
       <<"i","m","p","r","o","p","e","r"," ","l","a","n","e">>, <<"l","a","n","e"," ","v","i","o","l","a","t","i","o","n">>,
       <<"h","o","n","k","i","n","g">>, <<"u","n","n","e","c","e","s","s","a","r","y"," ","h","o","n","k","i","n","g">>,
       <<"h","o","r","n"," ","m","i","s","u","s","e">>, <<"n","o","i","s","e"," ","p","o","l","l","u","t","i","o","n">>,
       <<"p","a","r","k","i","n","g"," ","v","i","o","l","a","t","i","o","n">>, <<"w","r","o","n","g"," ","p","a","r","k","i","n","g">>,
       <<"b","l","o","c","k","i","n","g"," ","t","r","a","f","f","i","c">>, <<"d","o","u","b","l","e"," ","p","a","r","k","i","n","g">>,
       <<"o","v","e","r","s","p","e","e","d","i","n","g">>, <<"s","p","e","e","d"," ","l","i","m","i","t">>,
       <<"r","e","c","k","l","e","s","s"," ","s","p","e","e","d">>, <<"d","a","n","g","e","r","o","u","s"," ","s","p","e","e","d">> >>

india_keywords ==
    << <<"i","n","d","i","a">>, <<"i","n","d","i","a","n">>, <<"d","e","l","h","i">>,
       <<"m","u","m","b","a","i">>, <<"b","a","n","g","a","l","o","r","e">>, <<"c","h","e","n","n","a","i">>,
       <<"h","y","d","e","r","a","b","a","d">>, <<"p","u","n","e">>, <<"k","o","l","k","a","t","a">>,
       <<"g","u","r","g","a","o","n">>, <<"n","o","i","d","a">>, <<"a","h","m","e","d","a","b","a","d">> >>

india_terms ==
    << <<"i","n","d","i","a">>, <<"i","n","d","i","a","n">>, <<"d","e","l","h","i">>,
       <<"m","u","m","b","a","i">>, <<"b","a","n","g","a","l","o","r","e">>, <<"c","h","e","n","n","a","i">>,
       <<"h","y","d","e","r","a","b","a","d">>, <<"p","u","n","e">>, <<"k","o","l","k","a","t","a">>,
       <<"g","u","r","g","a","o","n">>, <<"n","o","i","d","a">>, <<"a","h","m","e","d","a","b","a","d">> >>

indian_subreddits ==
    << <<"i","n","d","i","a">>, <<"b","a","n","g","a","l","o","r","e">>, <<"m","u","m","b","a","i">>,
       <<"d","e","l","h","i">>, <<"p","u","n","e">>, <<"c","h","e","n","n","a","i">>,
       <<"h","y","d","e","r","a","b","a","d">>, <<"a","s","k","i","n","d","i","a">>, <<"c","a","r","s","i","n","d","i","a">>,
       <<"i","n","d","i","a","n","b","i","k","e","s">>, <<"i","n","d","i","a","s","p","e","a","k","s">> >>

orchestrator_indian_subreddits ==
    << <<"i","n","d","i","a">>, <<"b","a","n","g","a","l","o","r","e">>, <<"m","u","m","b","a","i">>,
       <<"d","e","l","h","i">>, <<"p","u","n","e">>, <<"c","h","e","n","n","a","i">>,
       <<"h","y","d","e","r","a","b","a","d">>, <<"a","s","k","i","n","d","i","a">>, <<"c","a","r","s","i","n","d","i","a">>,
       <<"i","n","d","i","a","n","b","i","k","e","s">>, <<"i","n","d","i","a","s","p","e","a","k","s">> >>

TOPIC_KEYWORDS_civic_sense ==
    << <<"c","i","v","i","c"," ","s","e","n","s","e">>, <<"c","i","v","i","c"," ","r","e","s","p","o","n","s","i","b","i","l","i","t","y">>,
       <<"c","i","v","i","c"," ","a","w","a","r","e","n","e","s","s">>, <<"c","i","v","i","c"," ","d","u","t","y">>,
       <<"p","u","b","l","i","c"," ","b","e","h","a","v","i","o","r">>, <<"s","o","c","i","a","l"," ","r","e","s","p","o","n","s","i","b","i","l","i","t","y">>,
       <<"c","i","v","i","c"," ","e","d","u","c","a","t","i","o","n">>, <<"c","i","v","i","c"," ","c","o","n","s","c","i","o","u","s","n","e","s","s">> >>

TOPIC_KEYWORDS_road_rage ==
    << <<"r","o","a","d"," ","r","a","g","e">>, <<"a","g","g","r","e","s","s","i","v","e"," ","d","r","i","v","i","n","g">>,
       <<"d","r","i","v","e","r"," ","a","n","g","e","r">>, <<"r","o","a","d"," ","v","i","o","l","e","n","c","e">>,
       <<"t","r","a","f","f","i","c"," ","f","i","g","h","t">>, <<"r","o","a","d"," ","a","n","g","e","r">>,
       <<"d","r","i","v","e","r"," ","r","a","g","e">>, <<"t","r","a","f","f","i","c"," ","r","a","g","e">>,
       <<"v","e","h","i","c","l","e"," ","a","g","g","r","e","s","s","i","o","n">>, <<"d","r","i","v","i","n","g"," ","a","n","g","e","r">> >>

TOPIC_KEYWORDS_bad_driving ==
    << <<"b","a","d"," ","d","r","i","v","i","n","g">>, <<"r","a","s","h"," ","d","r","i","v","i","n","g">>,
       <<"r","e","c","k","l","e","s","s"," ","d","r","i","v","i","n","g">>, <<"p","o","o","r"," ","d","r","i","v","i","n","g">>,
       <<"d","a","n","g","e","r","o","u","s"," ","d","r","i","v","i","n","g">>, <<"i","r","r","e","s","p","o","n","s","i","b","l","e"," ","d","r","i","v","i","n","g">>,
       <<"n","e","g","l","i","g","e","n","t"," ","d","r","i","v","i","n","g">>, <<"c","a","r","e","l","e","s","s"," ","d","r","i","v","i","n","g">>,
       <<"u","n","s","a","f","e"," ","d","r","i","v","i","n","g">> >>

TOPIC_KEYWORDS_traffic_violations ==
    << <<"s","i","g","n","a","l"," ","j","u","m","p">>, <<"r","e","d"," ","l","i","g","h","t"," ","v","i","o","l","a","t","i","o","n">>,
       <<"w","r","o","n","g"," ","s","i","d","e">>, <<"h","e","l","m","e","t"," ","v","i","o","l","a","t","i","o","n">>,
       <<"d","r","u","n","k"," ","d","r","i","v","i","n","g">>, <<"o","v","e","r","s","p","e","e","d","i","n","g">>,
       <<"l","a","n","e"," ","v","i","o","l","a","t","i","o","n">>, <<"t","r","a","f","f","i","c"," ","r","u","l","e","s"," ","v","i","o","l","a","t","i","o","n">>,
       <<"d","r","i","v","i","n","g"," ","l","i","c","e","n","s","e"," ","v","i","o","l","a","t","i","o","n">>, <<"v","e","h","i","c","l","e"," ","r","e","g","i","s","t","r","a","t","i","o","n">>,
       <<"t","r","a","f","f","i","c"," ","f","i","n","e">> >>

TOPIC_KEYWORDS_road_safety ==
    << <<"r","o","a","d"," ","s","a","f","e","t","y">>, <<"a","c","c","i","d","e","n","t"," ","p","r","e","v","e","n","t","i","o","n">>,
       <<"s","a","f","e"," ","d","r","i","v","i","n","g">>, <<"t","r","a","f","f","i","c"," ","r","u","l","e","s">>,
       <<"d","r","i","v","i","n","g"," ","l","a","w","s">>, <<"s","a","f","e","t","y"," ","a","w","a","r","e","n","e","s","s">>,
       <<"r","o","a","d"," ","d","i","s","c","i","p","l","i","n","e">>, <<"t","r","a","f","f","i","c"," ","d","i","s","c","i","p","l","i","n","e">>,
       <<"d","e","f","e","n","s","i","v","e"," ","d","r","i","v","i","n","g">>, <<"r","e","s","p","o","n","s","i","b","l","e"," ","d","r","i","v","i","n","g">> >>

\* -------------------------------------------------- relevance classifier

\* find_matched_terms, were it to search the text as given (no lower())
find_matched_terms_case_sensitive(text) ==
    SelectSeq(all_terms, LAMBDA term : Contains(text, term))

\* RedditScraper.find_matched_terms
find_matched_terms(text) ==
    LET text_lower == Lower(text)
    IN  SelectSeq(all_terms, LAMBDA term : Contains(text_lower, term))

\* classify_post_topic, were road_rage to come first in priority_topics
classify_post_topic_road_rage_first(title, content) ==
    LET text == Lower(Joined(title, content))
    IN  IF AnyIn(TOPIC_KEYWORDS_road_rage, text) THEN "Road Rage"
        ELSE IF AnyIn(TOPIC_KEYWORDS_civic_sense, text) THEN "Civic Sense"
        ELSE IF AnyIn(TOPIC_KEYWORDS_bad_driving, text) THEN "Bad Driving"
        ELSE IF AnyIn(TOPIC_KEYWORDS_traffic_violations, text) THEN "Traffic Violations"
        ELSE IF AnyIn(TOPIC_KEYWORDS_road_safety, text) THEN "Road Safety"
        ELSE "General Traffic Discussion"

\* Config.classify_post_topic
classify_post_topic(title, content) ==
    LET text == Lower(Joined(title, content))
    IN  IF AnyIn(TOPIC_KEYWORDS_civic_sense, text) THEN "Civic Sense"
        ELSE IF AnyIn(TOPIC_KEYWORDS_road_rage, text) THEN "Road Rage"
        ELSE IF AnyIn(TOPIC_KEYWORDS_bad_driving, text) THEN "Bad Driving"
        ELSE IF AnyIn(TOPIC_KEYWORDS_traffic_violations, text) THEN "Traffic Violations"
        ELSE IF AnyIn(TOPIC_KEYWORDS_road_safety, text) THEN "Road Safety"
        ELSE "General Traffic Discussion"

\* _is_relevant_post_enhanced, were the subreddit compared as given
is_relevant_post_enhanced_exact_case(post_data, matched_terms) ==
    LET title     == Lower(post_data.title)
        selftext  == Lower(post_data.selftext)
        subreddit == post_data.subreddit
        text      == Joined(title, selftext)
    IN  IF matched_terms = <<>> THEN FALSE
        ELSE IF \E i \in 1..Len(indian_subreddits) : indian_subreddits[i] = subreddit
             THEN TRUE
        ELSE AnyIn(india_keywords, text)

\* RedditScraper._is_relevant_post_enhanced
is_relevant_post_enhanced(post_data, matched_terms) ==
    LET title     == Lower(post_data.title)
        selftext  == Lower(post_data.selftext)
        subreddit == Lower(post_data.subreddit)
        text      == Joined(title, selftext)
    IN  IF matched_terms = <<>> THEN FALSE
        ELSE IF \E i \in 1..Len(indian_subreddits) : indian_subreddits[i] = subreddit
             THEN TRUE
        ELSE AnyIn(india_keywords, text)

\* selftext[:200]
PREVIEW_LENGTH == 200

\* The post object the parser builds for one child (fields the session
\* never reads -- author, score, num_comments, created_utc, created_time,
\* is_self, source, scraped_at -- are left out).
make_post(post_data, matched_terms) ==
    [ title         |-> post_data.title,
      url           |-> "https://reddit.com" \o post_data.permalink,
      subreddit     |-> post_data.subreddit,
      selftext      |-> post_data.selftext,
      matched_terms |-> matched_terms,
      matched_topic |-> classify_post_topic(post_data.title, post_data.selftext),
      preview_text  |-> IF post_data.selftext # <<>>
                        THEN ReplaceNewlines(Prefix(post_data.selftext, PREVIEW_LENGTH))
                        ELSE post_data.title ]

\* The parser's gate, were it to keep every t3 child
child_emitted_any_t3(child) == child.kind = "t3"

\* The parser's gate on one child: kind t3, matched terms found, relevant.
child_emitted(child) ==
    /\ child.kind = "t3"
    /\ find_matched_terms(Joined(child.data.title, child.data.selftext)) # <<>>
    /\ is_relevant_post_enhanced(
           child.data, find_matched_terms(Joined(child.data.title, child.data.selftext)))

\* RedditScraper._parse_reddit_response: the body of `for child in children`,
\* the posts (none or one) the child adds
parse_child(child) ==
    IF child_emitted(child)
    THEN <<make_post(child.data,
               find_matched_terms(Joined(child.data.title, child.data.selftext)))>>
    ELSE <<>>

\* ------------------------------------------------------ duplicate filter

\* hashlib.md5(...).hexdigest(): a digest that identifies its input (no two
\* inputs of the model collide), kept apart from the text it digests.
md5(bytes) == <<"md5", bytes>>

\* CivicSenseCommandScraper.generate_content_hash
generate_content_hash(title, content) ==
    md5(Joined(Strip(Lower(title)), Strip(Lower(content))))

\* is_duplicate_post, were it to stop at the URL test
is_duplicate_post_url_only(post, urls, hashes) == post.url \in urls

\* is_duplicate_post, were it to test the content hash alone
is_duplicate_post_content_only(post, urls, hashes) ==
    generate_content_hash(post.title, post.selftext) \in hashes

\* CivicSenseCommandScraper.is_duplicate_post
is_duplicate_post(post, urls, hashes) ==
    IF post.url \in urls THEN TRUE
    ELSE generate_content_hash(post.title, post.selftext) \in hashes

\* add_post_to_tracking, were it to leave the URL out
tracked_urls_forgotten(post, urls) == urls

\* CivicSenseCommandScraper.add_post_to_tracking: the two sets afterwards
tracked_urls(post, urls) ==
    IF post.url # "" THEN urls \cup {post.url} ELSE urls

\* add_post_to_tracking, were it to leave the content hash out
tracked_hashes_forgotten(post, hashes) == hashes

tracked_hashes(post, hashes) ==
    hashes \cup {generate_content_hash(post.title, post.selftext)}

\* has_required_terms, were it to read the title alone
has_required_terms_title_only(post) ==
    LET title     == Lower(post.title)
        subreddit == Lower(post.subreddit)
    IN  IF ~AnyIn(required_terms, title) THEN FALSE
        ELSE IF \E i \in 1..Len(orchestrator_indian_subreddits) :
                    orchestrator_indian_subreddits[i] = subreddit
             THEN TRUE
        ELSE AnyIn(india_terms, title)

\* CivicSenseCommandScraper.has_required_terms
has_required_terms(post) ==
    LET title         == Lower(post.title)
        content       == Lower(post.selftext)
        combined_text == Joined(title, content)
        subreddit     == Lower(post.subreddit)
    IN  IF ~AnyIn(required_terms, combined_text) THEN FALSE
        ELSE IF \E i \in 1..Len(orchestrator_indian_subreddits) :
                    orchestrator_indian_subreddits[i] = subreddit
             THEN TRUE
        ELSE AnyIn(india_terms, combined_text)

\* ----------------------------------------------------------- configuration

\* Config.MIN_DELAY, Config.MAX_DELAY (seconds)
MIN_DELAY == 2

MAX_DELAY == 5

\* time.sleep(3) after a request that raised
ERROR_SLEEP == 3

\* `if remaining_time < 30: break`
LOW_TIME == 30

\* Config.get_search_strategy keeps its three groups in this order:
\* subreddit_new for TARGET_SUBREDDITS[:6], search for SEARCH_QUERIES[:8],
\* subreddit_hot for three key subreddits.  The model keeps the first
\* descriptor of each group.
get_search_strategy ==
    << [type |-> "subreddit_new", target |-> "india", query |-> "", limit |-> 30],
       [type |-> "search", target |-> "all", query |-> "civic sense india", limit |-> 30],
       [type |-> "subreddit_hot", target |-> "india", query |-> "", limit |-> 50] >>

\* random.randint(15, 20)
RotationDraws == 15..20

\* should_rotate_session, were it to leave out `self.request_count > 0`
should_rotate_session_from_zero(count, draw) == count % draw = 0

\* AntiDetectionManager.should_rotate_session, on request_count and the draw
should_rotate_session(count, draw) == count > 0 /\ count % draw = 0

\* _make_reddit_request: `if should_rotate_session(): self._setup_session()`,
\* the header sets the session can have afterwards
RotatedHeaders(headers, count) ==
    {IF should_rotate_session(count, draw) THEN headers + 1 ELSE headers :
        draw \in RotationDraws}

\* AntiDetectionManager.get_random_delay: a draw in [MIN_DELAY, MAX_DELAY],
\* stretched by a factor in [1.5, 2.5] one time in ten.  The values it can
\* return among the samples the model draws from.
get_random_delay(samples) ==
    {d \in samples :
        \/ d \in MIN_DELAY..MAX_DELAY
        \/ \E base \in MIN_DELAY..MAX_DELAY : 3 * base <= 2 * d /\ 2 * d <= 5 * base}

\* ------------------------------------------------------------- the source

\* A character json.loads accepts and str.encode('utf-8') rejects.
LONE_SURROGATE == "U+D800"

Child(title, selftext, subreddit, permalink) ==
    [kind |-> "t3",
     data |-> [title |-> title, selftext |-> selftext,
               subreddit |-> subreddit, permalink |-> permalink]]

india == <<"i","n","d","i","a">>

funny == <<"f","u","n","n","y">>

\* "Road rage in Delhi" in r/india
RawA == Child(<<"R","o","a","d"," ","r","a","g","e"," ","i","n"," ","D","e","l","h","i">>,
              <<>>, india, "/a")

\* "Rash driving" at the permalink of RawA
RawB == Child(<<"R","a","s","h"," ","d","r","i","v","i","n","g">>, <<>>, india, "/a")

\* " ROAD RAGE in delhi ": the text of RawA up to case and outer blanks
RawC == Child(<<" ","R","O","A","D"," ","R","A","G","E"," ","i","n"," ","d","e","l","h","i"," ">>,
              <<>>, india, "/b")

\* "Rash driving" again, at the permalink of RawC
RawD == Child(<<"R","a","s","h"," ","d","r","i","v","i","n","g">>, <<>>, india, "/b")

\* "Nice weather today" in r/funny, at the permalink of RawA
RawE == Child(<<"N","i","c","e"," ","w","e","a","t","h","e","r"," ","t","o","d","a","y">>,
              <<>>, funny, "/a")

\* "Road rage in Texas" in r/funny: terms, no India context
RawF == Child(<<"R","o","a","d"," ","r","a","g","e"," ","i","n"," ","T","e","x","a","s">>,
              <<>>, funny, "/c")

\* "Honking" followed by a lone surrogate, in r/india
RawG == Child(<<"H","o","n","k","i","n","g", LONE_SURROGATE>>, <<>>, india, "/d")

\* "Terrible road rage in Bangalore today" in r/india
RawH == Child(<<"T","e","r","r","i","b","l","e"," ","r","o","a","d"," ","r","a","g","e"," ","i","n"," ","B","a","n","g","a","l","o","r","e"," ","t","o","d","a","y">>,
              <<>>, india, "/h")

\* "Road rage in Delhi" and full stops up to 201 characters, no body, in r/india
RawL == Child(<<"R","o","a","d"," ","r","a","g","e"," ","i","n"," ","D","e","l","h","i">>
                  \o [n \in 1..(PREVIEW_LENGTH - 17) |-> "."],
              <<>>, india, "/l")

RawPool == {RawA, RawB, RawC, RawD, RawE, RawF, RawG, RawH, RawL}

\* What one session's source can serve: a session draws from one of these.
SourcePools ==
    { {RawA, RawB, RawD}, {RawA, RawC, RawD}, {RawA, RawE, RawG}, {RawA, RawF},
      {RawF, RawL} }

\* The most children the source hands out in one session.
MaxPosts == 3

RECURSIVE SeqsUpTo(_, _)
SeqsUpTo(S, n) ==
    IF n = 0 THEN {<<>>}
    ELSE LET shorter == SeqsUpTo(S, n - 1)
         IN  shorter \cup {Append(s, x) : s \in {t \in shorter : Len(t) = n - 1}, x \in S}

\* ------------------------------------------------------------------ state

VARIABLES
    pc,                   \* where the session is: idle, loop, round, fetching,
                          \* process, finalize, done
    now,                  \* datetime.now(), seconds
    start_time, end_time, \* CivicSenseCommandScraper fields
    running,
    scraped_posts,
    total_requests,
    seen_urls,
    seen_content_hashes,
    duplicate_count,
    filtered_count,
    search_strategy,      \* run: local
    remaining_time,       \* run: local, set at the top of each round
    new_posts,            \* the round's buffer (execute_search_round, then run)
    round_remaining,      \* execute_search_round: its own remaining_time
    cfg_idx,              \* execute_search_round: the search_config it is at
    post_idx,             \* run: the post of new_posts it is at
    request_count,        \* AntiDetectionManager.request_count
    report_files,         \* what generate_reports returned
    email_status,         \* outcome of send_email_reports
    source_pool,          \* the children the source can serve in this session
    \* history, read by no action
    processed_seq,        \* the candidates the pipeline has decided, in order,
                          \* each with its round and what was decided
    returned,             \* children handed out by the source so far
    noterm_fetched,       \* of those, t3 children without any vocabulary phrase
    noterm_seen_fetched,  \* of those, the ones at a URL already in seen_urls
    rounds,               \* rounds started
    finalize_calls,       \* calls of finalize_scraping
    finalized,            \* what finalize_scraping read
    exit_reason,          \* how the round loop ended
    last_fetch,           \* the last source call: its outcome, what the source
                          \* slept, what the scheduler slept after it
    request_at,           \* _make_reddit_request: where a call of it is
    session_headers,      \* RedditScraper.session.headers: the header set on
                          \* the session, by the number of sets installed
    rotation,             \* the last should_rotate_session(): what it read,
                          \* what it drew, what it returned
    attempts,             \* calls of scrape_posts started
    invoked,              \* this round: the descriptors scrape_posts was
                          \* called for, by position in the list, in order
    \* a call of one function of the program on its own
    probe,                \* the arguments
    probed                \* what the function returned

session == <<start_time, end_time, running, scraped_posts, total_requests,
             seen_urls, seen_content_hashes, duplicate_count, filtered_count>>

locals == <<search_strategy, remaining_time, new_posts, round_remaining, cfg_idx, post_idx>>

collaborators == <<request_count, report_files, email_status, source_pool>>

history == <<processed_seq, returned, noterm_fetched, noterm_seen_fetched, rounds,
             finalize_calls, finalized, exit_reason>>

harness == <<probe, probed>>

calls == <<attempts, invoked>>

requester == <<request_at, session_headers, rotation>>

vars == <<pc, now, session, locals, collaborators, history, last_fetch, calls, requester, harness>>

None == "None"

\* last_fetch before the first source call
NoFetch == [outcome |-> "none", backoff |-> 0, wait |-> 0]

\* rotation before the first call of should_rotate_session; the session has
\* the headers RedditScraper.__init__ installed
NoRotation == [count |-> 0, draw |-> 0, value |-> FALSE, headers |-> 1]

\* finalized before finalize_scraping has read anything
Unread == [posts |-> <<>>, duplicates |-> 0, filtered |-> 0, requests |-> 0]

\* CivicSenseCommandScraper.__init__
Constructed ==
    /\ pc = "idle"
    /\ now = 0
    /\ start_time = None
    /\ end_time = None
    /\ running = FALSE
    /\ scraped_posts = <<>>
    /\ total_requests = 0
    /\ seen_urls = {}
    /\ seen_content_hashes = {}
    /\ duplicate_count = 0
    /\ filtered_count = 0
    /\ search_strategy = <<>>
    /\ remaining_time = 0
    /\ new_posts = <<>>
    /\ round_remaining = 0
    /\ cfg_idx = 1
    /\ post_idx = 1
    /\ request_count = 0
    /\ report_files = <<>>
    /\ email_status = "none"
    /\ processed_seq = <<>>
    /\ returned = 0
    /\ noterm_fetched = 0
    /\ noterm_seen_fetched = 0
    /\ rounds = 0
    /\ finalize_calls = 0
    /\ finalized = Unread
    /\ exit_reason = None
    /\ last_fetch = NoFetch
    /\ attempts = 0
    /\ invoked = <<>>
    /\ request_at = "outside"
    /\ session_headers = 1
    /\ rotation = NoRotation

\* No function is called on its own in a session
NoProbe == probe = None /\ probed = None

Init == Constructed /\ source_pool \in SourcePools /\ NoProbe

\* ---------------------------------------------------------------- actions

\* signal_handler, were it to flip the flag (self.running = not self.running)
Interrupt_toggling ==
    /\ pc \notin {"done"}
    /\ running' = ~running
    /\ UNCHANGED <<pc, now, start_time, end_time, scraped_posts, total_requests,
                   seen_urls, seen_content_hashes, duplicate_count, filtered_count,
                   locals, collaborators, history>>
    /\ UNCHANGED <<last_fetch, harness, requester, attempts, invoked>>

\* signal_handler: Ctrl+C
Interrupt ==
    /\ pc \notin {"done"}
    /\ running' = FALSE
    /\ UNCHANGED <<pc, now, start_time, end_time, scraped_posts, total_requests,
                   seen_urls, seen_content_hashes, duplicate_count, filtered_count,
                   locals, collaborators, history>>
    /\ UNCHANGED <<last_fetch, harness, requester, attempts, invoked>>

\* run(duration_minutes), up to the try
Run(duration_minutes, strategy) ==
    /\ pc = "idle"
    /\ start_time' = now
    /\ end_time' = now + 60 * duration_minutes
    /\ running' = TRUE
    /\ search_strategy' = strategy
    /\ pc' = "loop"
    /\ UNCHANGED <<now, scraped_posts, total_requests, seen_urls, seen_content_hashes,
                   duplicate_count, filtered_count, remaining_time, new_posts,
                   round_remaining, cfg_idx, post_idx, collaborators, history>>
    /\ UNCHANGED <<last_fetch, harness, requester, attempts, invoked>>

\* The while test, were each round to start with fresh tracking sets
LoopTest_fresh_tracking ==
    /\ pc = "loop"
    /\ IF running /\ now < end_time
       THEN /\ remaining_time' = end_time - now
            /\ round_remaining' = end_time - now
            /\ new_posts' = <<>>
            /\ cfg_idx' = 1
            /\ pc' = "round"
            /\ rounds' = rounds + 1
            /\ seen_urls' = {}
            /\ seen_content_hashes' = {}
            /\ invoked' = <<>>
            /\ UNCHANGED exit_reason
       ELSE /\ pc' = "finalize"
            /\ exit_reason' = IF ~running THEN "interrupt" ELSE "deadline"
            /\ UNCHANGED <<remaining_time, round_remaining, new_posts, cfg_idx, rounds,
                           seen_urls, seen_content_hashes, invoked>>
    /\ UNCHANGED <<now, start_time, end_time, running, scraped_posts, total_requests,
                   duplicate_count, filtered_count, search_strategy, post_idx,
                   collaborators, processed_seq, returned, noterm_fetched,
                   noterm_seen_fetched, finalize_calls, finalized>>
    /\ UNCHANGED <<last_fetch, harness, requester, attempts>>

\* The while test, were it to test the flag alone (`while self.running:`) and
\* to skip the round once the deadline has passed (`continue`): the session
\* then waits in the loop for an interrupt
LoopTest_until_interrupted ==
    /\ pc = "loop"
    /\ IF running /\ now < end_time
       THEN /\ remaining_time' = end_time - now
            /\ round_remaining' = end_time - now
            /\ new_posts' = <<>>
            /\ cfg_idx' = 1
            /\ pc' = "round"
            /\ rounds' = rounds + 1
            /\ invoked' = <<>>
            /\ UNCHANGED exit_reason
       ELSE IF running
       THEN UNCHANGED <<pc, exit_reason, remaining_time, round_remaining, new_posts,
                        cfg_idx, rounds, invoked>>
       ELSE /\ pc' = "finalize"
            /\ exit_reason' = "interrupt"
            /\ UNCHANGED <<remaining_time, round_remaining, new_posts, cfg_idx, rounds,
                           invoked>>
    /\ UNCHANGED <<now, session, search_strategy, post_idx, collaborators, processed_seq,
                   returned, noterm_fetched, noterm_seen_fetched, finalize_calls,
                   finalized>>
    /\ UNCHANGED <<last_fetch, harness, requester, attempts>>

\* run: the while test, remaining_time, and the call of execute_search_round
LoopTest ==
    /\ pc = "loop"
    /\ IF running /\ now < end_time
       THEN /\ remaining_time' = end_time - now
            /\ round_remaining' = end_time - now
            /\ new_posts' = <<>>
            /\ cfg_idx' = 1
            /\ pc' = "round"
            /\ rounds' = rounds + 1
            /\ invoked' = <<>>
            /\ UNCHANGED exit_reason
       ELSE /\ pc' = "finalize"
            /\ exit_reason' = IF ~running THEN "interrupt" ELSE "deadline"
            /\ UNCHANGED <<remaining_time, round_remaining, new_posts, cfg_idx, rounds,
                           invoked>>
    /\ UNCHANGED <<now, session, search_strategy, post_idx, collaborators, processed_seq,
                   returned, noterm_fetched, noterm_seen_fetched, finalize_calls,
                   finalized>>
    /\ UNCHANGED <<last_fetch, harness, requester, attempts>>

\* The head of the for loop, were its break to test the budget alone
RoundBreaks_ignoring_running == cfg_idx > Len(search_strategy) \/ round_remaining <= 0

\* execute_search_round: the head of the for loop and its break
RoundBreaks == cfg_idx > Len(search_strategy) \/ ~running \/ round_remaining <= 0

\* The end of a round, were run to drop the buffer of an interrupted round
\* (`if not self.running: break` before the for loop over new_posts)
ReturnRound_dropping_interrupted ==
    /\ pc = "round"
    /\ RoundBreaks
    /\ post_idx' = 1
    /\ pc' = IF running THEN "process" ELSE "loop"
    /\ UNCHANGED <<now, session, search_strategy, remaining_time, new_posts,
                   round_remaining, cfg_idx, collaborators, history>>
    /\ UNCHANGED <<last_fetch, harness, requester, attempts, invoked>>

\* execute_search_round: the round is over, run starts on its buffer
ReturnRound ==
    /\ pc = "round"
    /\ RoundBreaks
    /\ post_idx' = 1
    /\ pc' = "process"
    /\ UNCHANGED <<now, session, search_strategy, remaining_time, new_posts,
                   round_remaining, cfg_idx, collaborators, history>>
    /\ UNCHANGED <<last_fetch, harness, requester, attempts, invoked>>

\* execute_search_round: scrape_posts is called for descriptor cfg_idx
InvokeSource ==
    /\ pc = "round"
    /\ ~RoundBreaks
    /\ pc' = "fetching"
    /\ attempts' = attempts + 1
    /\ invoked' = Append(invoked, cfg_idx)
    /\ UNCHANGED <<now, session, locals, collaborators, history>>
    /\ UNCHANGED <<last_fetch, harness, requester>>

\* parse_child and the vocabulary test, computed once per child of the pool
ParsedChild == [child \in RawPool |-> parse_child(child)]

NoTermChild ==
    [child \in RawPool |->
        /\ child.kind = "t3"
        /\ find_matched_terms(Joined(child.data.title, child.data.selftext)) = <<>>]

\* RedditScraper._parse_reddit_response on the children of a response
RECURSIVE parse_reddit_response(_)
parse_reddit_response(children) ==
    IF children = <<>> THEN <<>>
    ELSE ParsedChild[Head(children)] \o parse_reddit_response(Tail(children))

\* t3 children of a response without any vocabulary phrase
RECURSIVE CountNoTerm(_)
CountNoTerm(children) ==
    IF children = <<>> THEN 0
    ELSE (IF NoTermChild[Head(children)] THEN 1 ELSE 0) + CountNoTerm(Tail(children))

\* ... and, of those, the ones whose URL is in urls
RECURSIVE CountNoTermAt(_, _)
CountNoTermAt(children, urls) ==
    IF children = <<>> THEN 0
    ELSE (IF /\ NoTermChild[Head(children)]
             /\ ("https://reddit.com" \o Head(children).data.permalink) \in urls
          THEN 1 ELSE 0) + CountNoTermAt(Tail(children), urls)

\* execute_search_round, were it to count only the requests that brought posts
RoundContinues_counting_hits(outcome, posts, elapsed, backoff, delay) ==
    /\ new_posts' = new_posts \o posts
    /\ total_requests' = IF posts # <<>> THEN total_requests + 1 ELSE total_requests
    /\ now' = now + elapsed + backoff + delay
    /\ round_remaining' = round_remaining - delay
    /\ cfg_idx' = cfg_idx + 1
    /\ pc' = "round"
    /\ UNCHANGED <<start_time, end_time, running, scraped_posts, seen_urls,
                   seen_content_hashes, duplicate_count, filtered_count,
                   search_strategy, remaining_time, post_idx, report_files, email_status,
                   source_pool,
                   processed_seq, rounds, finalize_calls, finalized, exit_reason>>
    /\ last_fetch' = [outcome |-> outcome, backoff |-> backoff, wait |-> delay]
    /\ session_headers' \in RotatedHeaders(session_headers, request_count)
    /\ UNCHANGED <<harness, request_at, rotation, attempts, invoked>>

\* execute_search_round: new_posts.extend(posts), total_requests += 1, the
\* random delay, time.sleep(delay), remaining_time -= delay; before that, in
\* _make_reddit_request, the headers the session got if it was rotated
RoundContinues(outcome, posts, elapsed, backoff, delay) ==
    /\ new_posts' = new_posts \o posts
    /\ total_requests' = total_requests + 1
    /\ now' = now + elapsed + backoff + delay
    /\ round_remaining' = round_remaining - delay
    /\ cfg_idx' = cfg_idx + 1
    /\ pc' = "round"
    /\ UNCHANGED <<start_time, end_time, running, scraped_posts, seen_urls,
                   seen_content_hashes, duplicate_count, filtered_count,
                   search_strategy, remaining_time, post_idx, report_files, email_status,
                   source_pool,
                   processed_seq, rounds, finalize_calls, finalized, exit_reason>>
    /\ last_fetch' = [outcome |-> outcome, backoff |-> backoff, wait |-> delay]
    /\ session_headers' \in RotatedHeaders(session_headers, request_count)
    /\ UNCHANGED <<harness, request_at, rotation, attempts, invoked>>

\* _make_reddit_request, status 200 and a listing: the parsed posts
FetchOk(listings, latencies, delays) ==
    /\ pc = "fetching"
    /\ \E children \in listings, latency \in latencies,
          delay \in get_random_delay(delays) :
        /\ RoundContinues("ok", parse_reddit_response(children), latency, 0, delay)
        /\ returned' = returned + Len(children)
        /\ noterm_fetched' = noterm_fetched + CountNoTerm(children)
        /\ noterm_seen_fetched' = noterm_seen_fetched + CountNoTermAt(children, seen_urls)
    /\ request_count' = request_count + 1

\* A source that applies no gate of its own: every t3 child becomes a post
UnfilteredChild ==
    [child \in RawPool |->
        IF child.kind = "t3"
        THEN <<make_post(child.data,
                   find_matched_terms(Joined(child.data.title, child.data.selftext)))>>
        ELSE <<>>]

RECURSIVE unfiltered_response(_)
unfiltered_response(children) ==
    IF children = <<>> THEN <<>>
    ELSE UnfilteredChild[Head(children)] \o unfiltered_response(Tail(children))

\* scrape_posts of such a source returns: execute_search_round goes on as
\* after any call that returned
FetchUnfiltered(listings, latencies, delays) ==
    /\ pc = "fetching"
    /\ \E children \in listings, latency \in latencies,
          delay \in get_random_delay(delays) :
        /\ RoundContinues("ok", unfiltered_response(children), latency, 0, delay)
        /\ returned' = returned + Len(children)
        /\ noterm_fetched' = noterm_fetched + CountNoTerm(children)
        /\ noterm_seen_fetched' = noterm_seen_fetched + CountNoTermAt(children, seen_urls)
    /\ request_count' = request_count + 1

\* _make_reddit_request, status 429: sleeps 10 to 20 s and returns []
FetchRateLimited(latencies, rate_sleeps, delays) ==
    /\ pc = "fetching"
    /\ \E latency \in latencies, rate_sleep \in rate_sleeps,
          delay \in get_random_delay(delays) :
        RoundContinues("rate_limited", <<>>, latency, rate_sleep, delay)
    /\ request_count' = request_count + 1
    /\ UNCHANGED <<returned, noterm_fetched, noterm_seen_fetched>>

\* _make_reddit_request, another status or a body that is not JSON: []
FetchBadResponse(latencies, delays) ==
    /\ pc = "fetching"
    /\ \E latency \in latencies, delay \in get_random_delay(delays) :
        RoundContinues("bad_response", <<>>, latency, 0, delay)
    /\ request_count' = request_count + 1
    /\ UNCHANGED <<returned, noterm_fetched, noterm_seen_fetched>>

\* _make_reddit_request, session.get raises RequestException: []
FetchNetworkError(latencies, delays) ==
    /\ pc = "fetching"
    /\ \E latency \in latencies, delay \in get_random_delay(delays) :
        RoundContinues("network_error", <<>>, latency, 0, delay)
    /\ UNCHANGED <<request_count, returned, noterm_fetched, noterm_seen_fetched>>

\* The except branch, were the try to enclose the whole for loop: the
\* exception ends the round
FetchRaises_ending_round(latencies) ==
    /\ pc = "fetching"
    /\ \E latency \in latencies : now' = now + latency + ERROR_SLEEP
    /\ cfg_idx' = Len(search_strategy) + 1
    /\ pc' = "round"
    /\ UNCHANGED <<session, search_strategy, remaining_time, new_posts,
                   round_remaining, post_idx, collaborators, history>>
    /\ last_fetch' = [outcome |-> "raised", backoff |-> 0, wait |-> ERROR_SLEEP]
    /\ UNCHANGED <<harness, requester, attempts, invoked>>

\* The except branch, were it to try the same descriptor again after its sleep
FetchRaises_retrying(latencies) ==
    /\ pc = "fetching"
    /\ \E latency \in latencies : now' = now + latency + ERROR_SLEEP
    /\ cfg_idx' = cfg_idx
    /\ pc' = "round"
    /\ UNCHANGED <<session, search_strategy, remaining_time, new_posts,
                   round_remaining, post_idx, collaborators, history>>
    /\ last_fetch' = [outcome |-> "raised", backoff |-> 0, wait |-> ERROR_SLEEP]
    /\ UNCHANGED <<harness, requester, attempts, invoked>>

\* execute_search_round: the except branch, an exception out of scrape_posts
FetchRaises(latencies) ==
    /\ pc = "fetching"
    /\ \E latency \in latencies : now' = now + latency + ERROR_SLEEP
    /\ cfg_idx' = cfg_idx + 1
    /\ pc' = "round"
    /\ UNCHANGED <<session, search_strategy, remaining_time, new_posts,
                   round_remaining, post_idx, collaborators, history>>
    /\ last_fetch' = [outcome |-> "raised", backoff |-> 0, wait |-> ERROR_SLEEP]
    /\ UNCHANGED <<harness, requester, attempts, invoked>>

\* generate_content_hash: combined_content.encode('utf-8') raises
encode_raises(post) ==
    \E n \in 1..Len(Joined(post.title, post.selftext)) :
        Joined(post.title, post.selftext)[n] = LONE_SURROGATE

\* is_duplicate_post raises: the URL is new and the content cannot be hashed
pipeline_raises(post, urls) == post.url \notin urls /\ encode_raises(post)

\* The part of the session the for loop of run works on
Pipeline ==
    [posts |-> scraped_posts, urls |-> seen_urls, hashes |-> seen_content_hashes,
     duplicates |-> duplicate_count, filtered |-> filtered_count]

\* run: the body of `for post in new_posts`, were the duplicate branch to fall
\* through to the relevance test (no `continue`)
pipeline_step_fallthrough(st, post) ==
    LET counted == IF is_duplicate_post(post, st.urls, st.hashes)
                   THEN [st EXCEPT !.duplicates = @ + 1]
                   ELSE st
    IN  IF ~has_required_terms(post)
        THEN [counted EXCEPT !.filtered = @ + 1]
        ELSE [counted EXCEPT !.posts  = Append(@, post),
                             !.urls   = tracked_urls(post, @),
                             !.hashes = tracked_hashes(post, @)]

\* ... and were an accepted post put at the head of the list (insert(0, post))
pipeline_step_prepend(st, post) ==
    IF is_duplicate_post(post, st.urls, st.hashes)
    THEN [st EXCEPT !.duplicates = @ + 1]
    ELSE IF ~has_required_terms(post)
    THEN [st EXCEPT !.filtered = @ + 1]
    ELSE [st EXCEPT !.posts  = <<post>> \o @,
                    !.urls   = tracked_urls(post, @),
                    !.hashes = tracked_hashes(post, @)]

\* ... and were add_post_to_tracking called before the relevance test, for
\* every candidate that is not a duplicate
pipeline_step_tracking_filtered(st, post) ==
    IF is_duplicate_post(post, st.urls, st.hashes)
    THEN [st EXCEPT !.duplicates = @ + 1]
    ELSE IF ~has_required_terms(post)
    THEN [st EXCEPT !.filtered = @ + 1,
                    !.urls     = tracked_urls(post, @),
                    !.hashes   = tracked_hashes(post, @)]
    ELSE [st EXCEPT !.posts  = Append(@, post),
                    !.urls   = tracked_urls(post, @),
                    !.hashes = tracked_hashes(post, @)]

\* run: the body of `for post in new_posts`, from one pipeline state to the next
pipeline_step(st, post) ==
    IF is_duplicate_post(post, st.urls, st.hashes)
    THEN [st EXCEPT !.duplicates = @ + 1]
    ELSE IF ~has_required_terms(post)
    THEN [st EXCEPT !.filtered = @ + 1]
    ELSE [st EXCEPT !.posts  = Append(@, post),
                    !.urls   = tracked_urls(post, @),
                    !.hashes = tracked_hashes(post, @)]

\* run: one iteration of `for post in new_posts`
ProcessPost ==
    /\ pc = "process"
    /\ post_idx <= Len(new_posts)
    /\ ~pipeline_raises(new_posts[post_idx], seen_urls)
    /\ LET after == pipeline_step(Pipeline, new_posts[post_idx])
       IN  /\ scraped_posts' = after.posts
           /\ seen_urls' = after.urls
           /\ seen_content_hashes' = after.hashes
           /\ duplicate_count' = after.duplicates
           /\ filtered_count' = after.filtered
    /\ processed_seq' =
           Append(processed_seq,
                  [post    |-> new_posts[post_idx],
                   round   |-> rounds,
                   outcome |-> IF duplicate_count' # duplicate_count THEN "duplicate"
                               ELSE IF filtered_count' # filtered_count THEN "filtered"
                               ELSE IF scraped_posts' # scraped_posts THEN "accepted"
                               ELSE "none"])
    /\ post_idx' = post_idx + 1
    /\ UNCHANGED <<pc, now, start_time, end_time, running, total_requests,
                   search_strategy, remaining_time, new_posts, round_remaining, cfg_idx,
                   collaborators, returned, noterm_fetched, noterm_seen_fetched, rounds,
                   finalize_calls, finalized, exit_reason>>
    /\ UNCHANGED <<last_fetch, harness, requester, attempts, invoked>>

\* The exception path, were run to have no finally block
ProcessRaises_unfinalized ==
    /\ pc = "process"
    /\ post_idx <= Len(new_posts)
    /\ pipeline_raises(new_posts[post_idx], seen_urls)
    /\ pc' = "done"
    /\ exit_reason' = "exception"
    /\ UNCHANGED <<now, session, locals, collaborators, processed_seq, returned,
                   noterm_fetched, noterm_seen_fetched, rounds, finalize_calls,
                   finalized>>
    /\ UNCHANGED <<last_fetch, harness, requester, attempts, invoked>>

\* run: an exception in the for loop reaches `except Exception`, then finally
ProcessRaises ==
    /\ pc = "process"
    /\ post_idx <= Len(new_posts)
    /\ pipeline_raises(new_posts[post_idx], seen_urls)
    /\ pc' = "finalize"
    /\ exit_reason' = "exception"
    /\ UNCHANGED <<now, session, locals, collaborators, processed_seq, returned,
                   noterm_fetched, noterm_seen_fetched, rounds, finalize_calls,
                   finalized>>
    /\ UNCHANGED <<last_fetch, harness, requester, attempts, invoked>>

\* The end of a round, were a session short of time given half a minute more
\* (`self.end_time += timedelta(seconds=30)` in place of the break)
RoundEnd_extending ==
    /\ pc = "process"
    /\ post_idx > Len(new_posts)
    /\ IF remaining_time < LOW_TIME
       THEN end_time' = end_time + LOW_TIME
       ELSE UNCHANGED end_time
    /\ pc' = "loop"
    /\ UNCHANGED <<now, start_time, running, scraped_posts, total_requests, seen_urls,
                   seen_content_hashes, duplicate_count, filtered_count, locals,
                   collaborators, history>>
    /\ UNCHANGED <<last_fetch, harness, requester, attempts, invoked>>

\* run: the buffer is done; progress log and `if remaining_time < 30: break`
RoundEnd ==
    /\ pc = "process"
    /\ post_idx > Len(new_posts)
    /\ IF remaining_time < LOW_TIME
       THEN pc' = "finalize" /\ exit_reason' = "low_time"
       ELSE pc' = "loop" /\ UNCHANGED exit_reason
    /\ UNCHANGED <<now, session, locals, collaborators, processed_seq, returned,
                   noterm_fetched, noterm_seen_fetched, rounds, finalize_calls,
                   finalized>>
    /\ UNCHANGED <<last_fetch, harness, requester, attempts, invoked>>

\* What finalize_scraping reads of the session
Snapshot ==
    [posts |-> scraped_posts, duplicates |-> duplicate_count,
     filtered |-> filtered_count, requests |-> total_requests]

\* finalize_scraping, were it to write the reports and never call
\* send_email_reports
finalize_scraping_reports_only(email_outcomes) ==
    /\ pc = "finalize"
    /\ finalize_calls' = finalize_calls + 1
    /\ finalized' = Snapshot
    /\ IF scraped_posts # <<>>
       THEN report_files' = <<"comprehensive", "links", "statistics">>
       ELSE UNCHANGED report_files
    /\ pc' = "done"
    /\ UNCHANGED <<now, session, locals, request_count, source_pool, processed_seq,
                   returned, noterm_fetched, noterm_seen_fetched, rounds, exit_reason,
                   email_status, last_fetch, harness, requester,
                   attempts, invoked>>

\* finalize_scraping, were send_email_reports to have no try/except: a
\* failure of send_reports leaves run through the finally block
finalize_scraping_email_escapes(email_outcomes) ==
    /\ pc = "finalize"
    /\ finalize_calls' = finalize_calls + 1
    /\ finalized' = Snapshot
    /\ IF scraped_posts # <<>>
       THEN /\ report_files' = <<"comprehensive", "links", "statistics">>
            /\ email_status' \in email_outcomes
            /\ pc' = IF email_status' = "failed" THEN "crashed" ELSE "done"
       ELSE /\ UNCHANGED <<report_files, email_status>>
            /\ pc' = "done"
    /\ UNCHANGED <<now, session, locals, request_count, source_pool, processed_seq,
                   returned, noterm_fetched, noterm_seen_fetched, rounds, exit_reason,
                   last_fetch, harness, requester, attempts, invoked>>

\* finalize_scraping, with generate_reports and send_email_reports
finalize_scraping(email_outcomes) ==
    /\ pc = "finalize"
    /\ finalize_calls' = finalize_calls + 1
    /\ finalized' = Snapshot
    /\ IF scraped_posts # <<>>
       THEN /\ report_files' = <<"comprehensive", "links", "statistics">>
            /\ email_status' \in email_outcomes
       ELSE UNCHANGED <<report_files, email_status>>
    /\ pc' = "done"
    /\ UNCHANGED <<now, session, locals, request_count, source_pool, processed_seq,
                   returned, noterm_fetched, noterm_seen_fetched, rounds, exit_reason>>
    /\ UNCHANGED <<last_fetch, harness, requester, attempts, invoked>>

\* ------------------------------------------------------------ environment

\* run(1): the shortest session main() accepts
Durations == {1}

\* seconds one session.get can take
Latencies == {0, 12}

\* seconds until scrape_posts raises
RaiseLatencies == {9}

\* seconds the 429 branch sleeps, random.uniform(10, 20)
RateLimitSleeps == {12}

\* draws of get_random_delay the model follows
DelaySamples == {12}

EmailOutcomes == {"sent", "failed"}

\* the listings the source can answer with: children of its pool, as long as
\* it has handed out fewer than MaxPosts
Listings == SeqsUpTo(source_pool, MaxPosts - returned)

\* The session with a source that always answers 200: what the pipeline sees.
Next ==
    \/ Interrupt
    \/ \E d \in Durations : Run(d, get_search_strategy)
    \/ LoopTest
    \/ ReturnRound
    \/ InvokeSource
    \/ FetchOk(Listings, Latencies, DelaySamples)
    \/ ProcessPost
    \/ ProcessRaises
    \/ RoundEnd
    \/ finalize_scraping(EmailOutcomes)

Spec == Init /\ [][Next]_vars

\* The session of a scraper whose source hands over every post it finds, so
\* that run's own relevance test has something to turn away.
PipelineInit == Constructed /\ source_pool = {RawA, RawE, RawG} /\ NoProbe

PipelineNext ==
    \/ Interrupt
    \/ \E d \in Durations : Run(d, get_search_strategy)
    \/ LoopTest
    \/ ReturnRound
    \/ InvokeSource
    \/ FetchUnfiltered(Listings, Latencies, DelaySamples)
    \/ ProcessPost
    \/ ProcessRaises
    \/ RoundEnd
    \/ finalize_scraping(EmailOutcomes)

SpecPipeline == PipelineInit /\ [][PipelineNext]_vars

\* The session with every outcome of a fetch, over a source with two posts,
\* one of which cannot be hashed.
SchedulerInit == Constructed /\ source_pool = {RawA, RawG} /\ NoProbe

SchedulerNext ==
    \/ Interrupt
    \/ \E d \in Durations : Run(d, get_search_strategy)
    \/ LoopTest
    \/ ReturnRound
    \/ InvokeSource
    \/ FetchOk(Listings, Latencies, DelaySamples)
    \/ FetchRateLimited(Latencies, RateLimitSleeps, DelaySamples)
    \/ FetchBadResponse(Latencies, DelaySamples)
    \/ FetchNetworkError(Latencies, DelaySamples)
    \/ FetchRaises(RaiseLatencies)
    \/ ProcessPost
    \/ ProcessRaises
    \/ RoundEnd
    \/ finalize_scraping(EmailOutcomes)

SpecScheduler == SchedulerInit /\ [][SchedulerNext]_vars

\* The scheduler's session with a source that takes its time and hands out
\* at most one child per response.
LiveListings == SeqsUpTo(source_pool, IF returned < MaxPosts THEN 1 ELSE 0)

LiveLatencies == {12}

\* The steps of the process itself: everything but the signal.  The
\* interpreter keeps running run: a call that can return returns, a sleep ends.
SessionStep ==
    \/ \E d \in Durations : Run(d, get_search_strategy)
    \/ LoopTest
    \/ ReturnRound
    \/ InvokeSource
    \/ FetchOk(LiveListings, LiveLatencies, DelaySamples)
    \/ FetchRateLimited(LiveLatencies, RateLimitSleeps, DelaySamples)
    \/ FetchBadResponse(LiveLatencies, DelaySamples)
    \/ FetchNetworkError(LiveLatencies, DelaySamples)
    \/ FetchRaises(RaiseLatencies)
    \/ ProcessPost
    \/ ProcessRaises
    \/ RoundEnd
    \/ finalize_scraping(EmailOutcomes)

LiveNext == Interrupt \/ SessionStep

\* where run is: every step of the process moves it
position == <<pc, post_idx>>

SpecSchedulerLive == SchedulerInit /\ [][LiveNext]_vars /\ WF_position(SessionStep)

\* A session of ten minutes over two descriptors, newest of r/india and the
\* search 'road rage india', with a source that returns one record, once, for
\* the first request, and that answers fast or very slowly.
scenario_strategy ==
    << [type |-> "subreddit_new", target |-> "india", query |-> "", limit |-> 30],
       [type |-> "search", target |-> "all", query |-> "road rage india", limit |-> 30] >>

ScenarioListings == IF returned = 0 THEN {<<RawH>>} ELSE {<<>>}

ScenarioLatencies == {0, 300}

ScenarioInit == Constructed /\ source_pool = {RawH} /\ NoProbe

ScenarioNext ==
    \/ Run(10, scenario_strategy)
    \/ LoopTest
    \/ ReturnRound
    \/ InvokeSource
    \/ FetchOk(ScenarioListings, ScenarioLatencies, DelaySamples)
    \/ ProcessPost
    \/ RoundEnd
    \/ finalize_scraping(EmailOutcomes)

SpecScenario == ScenarioInit /\ [][ScenarioNext]_vars

\* ------------------------------------------ the requests of a long session

\* The most calls of _make_reddit_request in the sessions followed here.
MaxRequests == 41

\* scrape_posts enters _make_reddit_request: the call of should_rotate_session
CallShouldRotateSession ==
    /\ request_at = "outside"
    /\ attempts < MaxRequests
    /\ attempts' = attempts + 1
    /\ \E draw \in RotationDraws :
          /\ rotation' = [count   |-> request_count,
                          draw    |-> draw,
                          value   |-> should_rotate_session(request_count, draw),
                          headers |-> session_headers]
          /\ request_at' = IF rotation'.value THEN "rotating" ELSE "get"
    /\ UNCHANGED <<pc, now, session, locals, collaborators, history, last_fetch, invoked,
                   harness, session_headers>>

\* _make_reddit_request: self._setup_session()
SetupSession ==
    /\ request_at = "rotating"
    /\ session_headers' = session_headers + 1
    /\ request_at' = "get"
    /\ UNCHANGED <<pc, now, session, locals, collaborators, history, last_fetch, calls,
                   harness, rotation>>

\* _make_reddit_request: self.session.get(...) and what follows it: a
\* response is counted, a RequestException is not
SessionGet ==
    /\ request_at = "get"
    /\ request_count' \in {request_count, request_count + 1}
    /\ request_at' = "outside"
    /\ UNCHANGED <<pc, now, session, locals, report_files, email_status, source_pool,
                   history, last_fetch, calls, harness, session_headers, rotation>>

RequestsInit == Constructed /\ source_pool = {} /\ NoProbe

RequestsNext ==
    \/ CallShouldRotateSession
    \/ SetupSession
    \/ SessionGet

SpecRequests == RequestsInit /\ [][RequestsNext]_vars

\* -------------------------------------------- the functions on their own

\* Titles, bodies and subreddits the functions are called on
ProbeTitles ==
    { <<>>,
      <<"U","n","n","e","c","e","s","s","a","r","y"," ","H","O","N","K","I","N","G"," ","a","t"," ","n","i","g","h","t">>,
      <<"h","o","n","k","i","n","g",","," ","h","o","n","k","i","n","g">>,
      <<"R","o","a","d">>,
      <<"C","i","v","i","c"," ","s","e","n","s","e"," ","a","n","d"," ","r","o","a","d"," ","r","a","g","e"," ","i","n"," ","D","e","l","h","i">>,
      <<"N","i","c","e"," ","w","e","a","t","h","e","r"," ","t","o","d","a","y">>,
      <<"A","g","g","r","e","s","s","i","v","e"," ","d","r","i","v","i","n","g"," ","e","v","e","r","y","w","h","e","r","e">>,
      <<"R","a","s","h"," ","d","r","i","v","i","n","g"," ","a","n","d"," ","r","o","a","d"," ","s","a","f","e","t","y">>,
      <<"R","e","d"," ","l","i","g","h","t"," ","j","u","m","p","e","d">>,
      <<"T","r","a","f","f","i","c"," ","R","U","L","E","S","?">>,
      <<"S","i","g","n","a","l"," ","j","u","m","p"," ","n","e","a","r"," ","t","h","e"," ","t","r","a","f","f","i","c"," ","f","i","n","e"," ","o","f","f","i","c","e">> }

\* (a body can complete a phrase the title starts: "Road" + " " + "rage daily")
ProbeBodies ==
    { <<>>,
      <<"r","a","g","e"," ","d","a","i","l","y">>,
      <<"s","e","e","n"," ","i","n"," ","M","U","M","B","A","I">>,
      <<"s","a","f","e","\n","d","r","i","v","i","n","g">> }

\* (an allow-listed name can come in another case)
ProbeSubreddits ==
    { <<"i","n","d","i","a">>,
      <<"B","a","n","g","a","l","o","r","e">>,
      <<"f","u","n","n","y">>,
      <<"I","n","d","i","a","n","B","i","k","e","s">>,
      <<>> }

honking == <<"h","o","n","k","i","n","g">>

unnecessary_honking == <<"u","n","n","e","c","e","s","s","a","r","y"," ","h","o","n","k","i","n","g">>

\* the matched_terms argument of _is_relevant_post_enhanced
ProbeMatched == {<<>>, <<honking>>}

NotCalled == [fn |-> "none"]

ProbeInit ==
    /\ Constructed
    /\ source_pool = {}
    /\ probe \in [title : ProbeTitles, selftext : ProbeBodies,
                   subreddit : ProbeSubreddits, matched_terms : ProbeMatched]
    /\ probed = NotCalled

\* RedditScraper.find_matched_terms(f"{title} {selftext}")
CallFindMatchedTerms ==
    /\ probed = NotCalled
    /\ probed' = [fn    |-> "find_matched_terms",
                  value |-> find_matched_terms(Joined(probe.title, probe.selftext))]
    /\ UNCHANGED <<pc, now, session, locals, collaborators, history, last_fetch, probe,
                   requester, attempts, invoked>>

\* Config.classify_post_topic(title, selftext)
CallClassifyPostTopic ==
    /\ probed = NotCalled
    /\ probed' = [fn    |-> "classify_post_topic",
                  value |-> classify_post_topic(probe.title, probe.selftext)]
    /\ UNCHANGED <<pc, now, session, locals, collaborators, history, last_fetch, probe,
                   requester, attempts, invoked>>

\* RedditScraper._is_relevant_post_enhanced(post_data, matched_terms)
CallIsRelevantPostEnhanced ==
    /\ probed = NotCalled
    /\ probed' = [fn    |-> "is_relevant_post_enhanced",
                  value |-> is_relevant_post_enhanced(probe, probe.matched_terms)]
    /\ UNCHANGED <<pc, now, session, locals, collaborators, history, last_fetch, probe,
                   requester, attempts, invoked>>

\* CivicSenseCommandScraper.has_required_terms(post)
CallHasRequiredTerms ==
    /\ probed = NotCalled
    /\ probed' = [fn |-> "has_required_terms", value |-> has_required_terms(probe)]
    /\ UNCHANGED <<pc, now, session, locals, collaborators, history, last_fetch, probe,
                   requester, attempts, invoked>>

\* The child a response holds for the probe's title, body and subreddit
ProbeChild == Child(probe.title, probe.selftext, probe.subreddit, "/p")

\* RedditScraper._parse_reddit_response on a listing of that one child
CallParseRedditResponse ==
    /\ probed = NotCalled
    /\ probed' = [fn |-> "parse_reddit_response", value |-> parse_child(ProbeChild)]
    /\ UNCHANGED <<pc, now, session, locals, collaborators, history, last_fetch, probe,
                   requester, attempts, invoked>>

ProbeNext ==
    \/ CallParseRedditResponse
    \/ CallFindMatchedTerms
    \/ CallClassifyPostTopic
    \/ CallIsRelevantPostEnhanced
    \/ CallHasRequiredTerms

SpecFunctions == ProbeInit /\ [][ProbeNext]_vars

\* --------------------------------------------------------------- properties

\* The normalized content two posts are compared by
ContentKey(post) == generate_content_hash(post.title, post.selftext)

\* The candidate the pipeline is at, and the step that decides it
Candidate == new_posts[post_idx]

Deciding ==
    /\ pc = "process"
    /\ post_idx <= Len(new_posts)
    /\ Len(processed_seq') = Len(processed_seq) + 1

Decided == 1..Len(processed_seq)

\* C1: no two accepted records of a session share a non-empty URL, and no two
\* share the normalized content (lowercased, trimmed title and body).
C1_AcceptedAreDistinct ==
    \A a, b \in 1..Len(scraped_posts) :
        a < b =>
            /\ scraped_posts[a].url # "" => scraped_posts[a].url # scraped_posts[b].url
            /\ ContentKey(scraped_posts[a]) # ContentKey(scraped_posts[b])

\* C1's case: two distinct records accepted while a duplicate was turned away
C1_Witness ==
    /\ Len(scraped_posts) >= 2
    /\ \E m \in Decided : processed_seq[m].outcome = "duplicate"

\* C2 as stated: whenever a candidate reaches the duplicate filter after any
\* earlier candidate with the same non-empty URL, it is rejected and the
\* duplicates counter goes up by one.
C2_Original ==
    [][ ( /\ Deciding
          /\ Candidate.url # ""
          /\ \E n \in Decided : processed_seq[n].post.url = Candidate.url )
        => ( /\ duplicate_count' = duplicate_count + 1
             /\ scraped_posts' = scraped_posts ) ]_vars

\* C2, amended: a candidate whose non-empty URL is the URL of an accepted
\* record (same round or an earlier one) is rejected and the duplicates
\* counter goes up by one.
C2_RejectsUrlOfAccepted ==
    [][ ( /\ Deciding
          /\ Candidate.url # ""
          /\ \E n \in Decided : /\ processed_seq[n].outcome = "accepted"
                                /\ processed_seq[n].post.url = Candidate.url )
        => ( /\ duplicate_count' = duplicate_count + 1
             /\ scraped_posts' = scraped_posts ) ]_vars

\* C2's case: a candidate rejected for sharing only its URL with an accepted one
C2_Witness ==
    \E n, m \in Decided :
        /\ n < m
        /\ processed_seq[n].outcome = "accepted"
        /\ processed_seq[m].outcome = "duplicate"
        /\ processed_seq[n].post.url = processed_seq[m].post.url
        /\ processed_seq[n].post.url # ""
        /\ ContentKey(processed_seq[n].post) # ContentKey(processed_seq[m].post)

\* C3 as stated: whenever a candidate reaches the duplicate filter after any
\* earlier candidate with the same normalized content and another URL, it is
\* rejected as a duplicate and not appended to the accepted list.
C3_Original ==
    [][ ( /\ Deciding
          /\ \E n \in Decided :
                 /\ processed_seq[n].post.url # Candidate.url
                 /\ ContentKey(processed_seq[n].post) = ContentKey(Candidate) )
        => ( /\ duplicate_count' = duplicate_count + 1
             /\ scraped_posts' = scraped_posts ) ]_vars

\* C3, amended: a candidate whose normalized content is that of an accepted
\* record with another URL is rejected as a duplicate and not appended to the
\* accepted list.
C3_RejectsContentOfAccepted ==
    [][ ( /\ Deciding
          /\ \E n \in Decided :
                 /\ processed_seq[n].outcome = "accepted"
                 /\ processed_seq[n].post.url # Candidate.url
                 /\ ContentKey(processed_seq[n].post) = ContentKey(Candidate) )
        => ( /\ duplicate_count' = duplicate_count + 1
             /\ scraped_posts' = scraped_posts ) ]_vars

\* C3's case: a candidate rejected for its content alone: another URL, and a
\* title that differs from the accepted one in case and outer blanks
C3_Witness ==
    \E n, m \in Decided :
        /\ n < m
        /\ processed_seq[n].outcome = "accepted"
        /\ processed_seq[m].outcome = "duplicate"
        /\ processed_seq[n].post.url # processed_seq[m].post.url
        /\ processed_seq[n].post.title # processed_seq[m].post.title
        /\ ContentKey(processed_seq[n].post) = ContentKey(processed_seq[m].post)

\* C4: accepted + duplicates + filtered equals the number of candidates the
\* pipeline has processed; each processed candidate is counted in exactly one
\* of the three.
C4_CountersPartition ==
    /\ Len(scraped_posts) + duplicate_count + filtered_count = Len(processed_seq)
    /\ Cardinality({m \in Decided : processed_seq[m].outcome = "accepted"})
           = Len(scraped_posts)
    /\ Cardinality({m \in Decided : processed_seq[m].outcome = "duplicate"})
           = duplicate_count
    /\ Cardinality({m \in Decided : processed_seq[m].outcome = "filtered"})
           = filtered_count

\* C4's case: several candidates processed, accepted and rejected ones among them
C4_Witness ==
    /\ Len(processed_seq) >= 3
    /\ Len(scraped_posts) >= 1
    /\ duplicate_count >= 1

\* C5 as stated: every fetched post that matches no vocabulary phrase is
\* counted in filtered.  Once a session has processed all it fetched, the
\* filtered counter equals the number of such posts.
C5_Original ==
    (pc = "done" /\ exit_reason # "exception") => filtered_count = noterm_fetched

\* C6: the duplicates counter moves only on a pipeline step whose candidate
\* matches at least one vocabulary phrase; a record with zero matched terms
\* never increments it, whatever its URL.
C6_NoTermNeverDuplicate ==
    [][ duplicate_count' # duplicate_count
        => ( /\ pc = "process"
             /\ post_idx <= Len(new_posts)
             /\ find_matched_terms(Joined(Candidate.title, Candidate.selftext)) # <<>> )
      ]_vars

\* C6's case: a post without vocabulary phrases was fetched at a URL already
\* tracked, the session went through all it fetched, and duplicates is 0
C6_Witness ==
    /\ noterm_seen_fetched >= 1
    /\ pc = "done"
    /\ exit_reason # "exception"
    /\ duplicate_count = 0

road_rage == <<"r","o","a","d"," ","r","a","g","e">>

\* The first round has been fetched and processed
FirstRoundDone ==
    \/ rounds >= 2
    \/ rounds = 1 /\ pc \in {"loop", "finalize", "done"}
    \/ rounds = 1 /\ pc = "process" /\ post_idx > Len(new_posts)

ScenarioExpected ==
    /\ Len(scraped_posts) = 1
    /\ \E t \in 1..Len(scraped_posts[1].matched_terms) :
           scraped_posts[1].matched_terms[t] = road_rage
    /\ scraped_posts[1].matched_topic = "Road Rage"
    /\ duplicate_count = 0
    /\ filtered_count = 0

\* C7 as stated: in the scenario session the record is accepted with matched
\* term 'road rage' and topic 'Road Rage', and the final counters are
\* accepted = 1, duplicates = 0, filtered = 0, requests_made = 2.
C7_Original ==
    pc = "done" => (ScenarioExpected /\ total_requests = 2)

\* C7, amended: the record is accepted with matched term 'road rage' and topic
\* 'Road Rage'; from the end of the first round to the end of the session
\* accepted = 1, duplicates = 0, filtered = 0; requests_made is 2 when the
\* first round ends, and the session goes on round after round until the
\* deadline, so the final requests_made is 2 only if no second round started.
C7_FirstRound ==
    /\ FirstRoundDone => ScenarioExpected
    /\ (FirstRoundDone /\ rounds = 1) => total_requests = 2
    /\ rounds >= 2 => total_requests >= 2
    /\ pc = "done" => ((total_requests = 2) <=> (rounds = 1))

\* C7's case: the scenario session is over, after more than one round
C7_Witness ==
    /\ pc = "done"
    /\ rounds >= 2
    /\ ScenarioExpected
    /\ total_requests > 2

\* The pipeline of a fresh session: empty tracking sets, zero counters
PipelineFresh ==
    [posts |-> <<>>, urls |-> {}, hashes |-> {}, duplicates |-> 0, filtered |-> 0]

\* The candidates of a log pushed through the pipeline from the fresh state
RECURSIVE Replay(_)
Replay(log) ==
    IF log = <<>> THEN PipelineFresh
    ELSE pipeline_step(Replay(SubSeq(log, 1, Len(log) - 1)), log[Len(log)].post)

\* C8: the pipeline is deterministic in its input sequence.  Whatever the
\* rounds, timing and interrupts of the session, the accepted list, the
\* counters and the tracking sets after a candidate is decided are those of
\* pushing the candidates decided so far, in order, through the pipeline from
\* an empty index and zero counters, and no other step changes them; so two
\* pushes of the same sequence end with the same list and counts.
C8_Deterministic ==
    [][ IF Deciding
        THEN Pipeline' = Replay(processed_seq')
        ELSE Pipeline' = Pipeline ]_vars

\* C8's case: a sequence with accepted and rejected candidates, decided over
\* more than one round, has given what its replay gives
C8_Witness ==
    /\ Len(processed_seq) >= 3
    /\ processed_seq[1].round < processed_seq[Len(processed_seq)].round
    /\ Len(scraped_posts) >= 1
    /\ duplicate_count >= 1
    /\ Pipeline = Replay(processed_seq)

\* C9: the accepted list only grows, by the candidate at hand put at its end;
\* candidates are decided in the order of the round's buffer, which itself
\* only grows at its end within a round; no counter ever decreases.
C9_AppendOnly ==
    [][ /\ \/ scraped_posts' = scraped_posts
           \/ /\ pc = "process"
              /\ post_idx <= Len(new_posts)
              /\ scraped_posts' = Append(scraped_posts, Candidate)
        /\ Len(processed_seq') # Len(processed_seq)
           => /\ Deciding
              /\ processed_seq'[Len(processed_seq')].post = Candidate
              /\ post_idx' = post_idx + 1
              /\ new_posts' = new_posts
        /\ new_posts' # new_posts
           => \/ pc = "loop" /\ new_posts' = <<>>
              \/ /\ Len(new_posts') > Len(new_posts)
                 /\ SubSeq(new_posts', 1, Len(new_posts)) = new_posts
        /\ Len(scraped_posts') >= Len(scraped_posts)
        /\ duplicate_count' >= duplicate_count
        /\ filtered_count' >= filtered_count
        /\ total_requests' >= total_requests ]_vars

\* C9's case: accepted records from more than one round, a duplicate between
C9_Witness ==
    /\ Len(scraped_posts) >= 2
    /\ duplicate_count >= 1
    /\ \E n, m \in Decided :
           /\ processed_seq[n].round < processed_seq[m].round
           /\ processed_seq[n].outcome = "accepted"
           /\ processed_seq[m].outcome = "accepted"

ExitReasons == {"deadline", "low_time", "interrupt", "exception"}

\* C10: finalization runs at most once, a session is over only after it has
\* run, every way the round loop ends (deadline, too little time left,
\* interrupt, exception) leads to it, and what it read is the final state.
C10_FinalizedOnce ==
    /\ finalize_calls <= 1
    /\ (finalize_calls = 1) <=> (pc = "done")
    /\ (pc \in {"finalize", "done"}) <=> (exit_reason \in ExitReasons)
    /\ exit_reason \in ExitReasons \cup {None}
    /\ pc = "done" => finalized = Snapshot

\* C10's case: a session ended by an exception, after accepting a record
C10_Witness ==
    /\ pc = "done"
    /\ exit_reason = "exception"
    /\ finalize_calls = 1
    /\ Len(scraped_posts) >= 1
    /\ finalized.posts = scraped_posts

Artifacts == <<"comprehensive", "links", "statistics">>

C12_EmailFailureContained ==
    email_status = "failed" =>
        /\ pc = "done"
        /\ finalize_calls = 1
        /\ report_files = Artifacts
        /\ finalized = Snapshot

\* C12's case: the notification failed in a session with accepted records
C12_Witness ==
    /\ email_status = "failed"
    /\ pc = "done"
    /\ report_files = Artifacts
    /\ Len(scraped_posts) >= 1
    /\ duplicate_count >= 1

\* A source call has just returned to execute_search_round, or raised into it
FetchEnds == pc = "fetching" /\ pc' # pc

Failures == {"rate_limited", "bad_response", "network_error", "raised"}

C14_Original ==
    [][ /\ ( /\ pc = "process" /\ post_idx > Len(new_posts) /\ pc' # pc
             /\ running /\ end_time - now >= LOW_TIME )
           => pc' = "loop"
        /\ ( /\ pc = "loop" /\ rounds >= 1 /\ pc' # pc
             /\ running /\ end_time - now >= LOW_TIME )
           => pc' = "round"
        /\ (pc = "loop" /\ rounds >= 1 /\ end_time - now < LOW_TIME)
           => pc' # "round" ]_vars

\* C18: at every state of a session, so at every candidate boundary, each
\* accepted record's URL (when non-empty) is in seen_urls and its content
\* hash is in seen_content_hashes.
C18_AcceptedAreTracked ==
    \A n \in 1..Len(scraped_posts) :
        /\ scraped_posts[n].url # "" => scraped_posts[n].url \in seen_urls
        /\ ContentKey(scraped_posts[n]) \in seen_content_hashes

\* C18's case: a record was just accepted and the next candidate of the
\* buffer is about to be evaluated
C18_Witness ==
    /\ pc = "process"
    /\ post_idx >= 2
    /\ post_idx <= Len(new_posts)
    /\ processed_seq # <<>>
    /\ processed_seq[Len(processed_seq)].outcome = "accepted"
    /\ processed_seq[Len(processed_seq)].post = new_posts[post_idx - 1]

\* C19: a source call starts only from the head of the round's loop, with
\* the session running, the round's budget positive and a descriptor left;
\* with running false or the budget used up the round ends there, fetching
\* no later descriptor; an interrupt changes nothing but running, so the
\* call and the sleep in progress complete and no further call starts.
C19_NoFetchWhenStopped ==
    [][ /\ (pc' = "fetching" /\ pc # "fetching")
           => /\ pc = "round"
              /\ running
              /\ round_remaining > 0
              /\ cfg_idx <= Len(search_strategy)
        /\ (pc = "round" /\ pc' # pc /\ (~running \/ round_remaining <= 0))
           => /\ pc' = "process"
              /\ cfg_idx' = cfg_idx
              /\ new_posts' = new_posts
              /\ total_requests' = total_requests
        /\ (running /\ ~running')
           => UNCHANGED <<pc, now, start_time, end_time, scraped_posts,
                          total_requests, seen_urls, seen_content_hashes,
                          duplicate_count, filtered_count, locals, collaborators,
                          history, last_fetch>> ]_vars

\* C19's case: an interrupt arrived during a call; the call has completed and
\* the round has ended with descriptors left and budget to spare
C19_Witness ==
    /\ ~running
    /\ pc = "process"
    /\ last_fetch.outcome # "none"
    /\ cfg_idx >= 2
    /\ cfg_idx <= Len(search_strategy)
    /\ round_remaining > 0

\* C20 as stated: after a failure other than a 429 (another status, a body
\* that is not JSON, a network error) the scheduler sleeps the fixed 3 s;
\* after a 429 the wait is longer and the batch is empty; in both cases the
\* round goes on with the next descriptor.
C20_Original ==
    [][ /\ (FetchEnds /\ last_fetch'.outcome \in {"bad_response", "network_error"})
           => /\ last_fetch'.wait = ERROR_SLEEP
              /\ cfg_idx' = cfg_idx + 1
        /\ (FetchEnds /\ last_fetch'.outcome = "rate_limited")
           => /\ last_fetch'.backoff + last_fetch'.wait > ERROR_SLEEP
              /\ new_posts' = new_posts
              /\ cfg_idx' = cfg_idx + 1 ]_vars

\* term occurs in text, position by position
Occurs(term, text) ==
    \E s \in 1..Len(text) :
        /\ s + Len(term) - 1 <= Len(text)
        /\ \A j \in 1..Len(term) : text[s + j - 1] = term[j]

\* The text a probe's title and body make: title, one blank, body, lower-cased
ProbeText == Lower(probe.title \o <<" ">> \o probe.selftext)

\* C15: find_matched_terms returns exactly the vocabulary phrases occurring in
\* the lower-cased text, each once, in the order of the vocabulary, and the
\* empty list if and only if none occurs; with 'unnecessary honking' in the
\* text it returns 'honking' and, after it, 'unnecessary honking'.
C15_MatchedTermsExact ==
    probed.fn = "find_matched_terms" =>
        LET r == probed.value
        IN  /\ \A j \in 1..Len(all_terms) :
                   (\E k \in 1..Len(r) : r[k] = all_terms[j])
                       <=> Occurs(all_terms[j], ProbeText)
            /\ \A a, b \in 1..Len(r) :
                   a < b => \E j, l \in 1..Len(all_terms) :
                                j < l /\ all_terms[j] = r[a] /\ all_terms[l] = r[b]
            /\ \A a, b \in 1..Len(r) : a # b => r[a] # r[b]
            /\ (r = <<>>) <=> ~\E j \in 1..Len(all_terms) : Occurs(all_terms[j], ProbeText)
            /\ Occurs(unnecessary_honking, ProbeText)
                   => \E a, b \in 1..Len(r) :
                          a < b /\ r[a] = honking /\ r[b] = unnecessary_honking

\* C15's case: 'Unnecessary HONKING at night' gave the two phrases, in order
C15_Witness ==
    /\ probed.fn = "find_matched_terms"
    /\ probe.title # Lower(probe.title)
    /\ probed.value = <<honking, unnecessary_honking>>

priority_topics ==
    << [keywords |-> TOPIC_KEYWORDS_civic_sense,        label |-> "Civic Sense"],
       [keywords |-> TOPIC_KEYWORDS_road_rage,          label |-> "Road Rage"],
       [keywords |-> TOPIC_KEYWORDS_bad_driving,        label |-> "Bad Driving"],
       [keywords |-> TOPIC_KEYWORDS_traffic_violations, label |-> "Traffic Violations"],
       [keywords |-> TOPIC_KEYWORDS_road_safety,        label |-> "Road Safety"] >>

\* The groups with a keyword occurring in the probe's text
ProbeGroups ==
    {g \in 1..Len(priority_topics) :
        \E k \in 1..Len(priority_topics[g].keywords) :
            Occurs(priority_topics[g].keywords[k], ProbeText)}

\* C16: classify_post_topic returns the label of the first group, in the
\* order Civic Sense, Road Rage, Bad Driving, Traffic Violations, Road Safety,
\* with a keyword occurring in lower(title + ' ' + body), and 'General Traffic
\* Discussion' when there is none: one of six labels, whatever
\* find_matched_terms returns for the text.
C16_TopicByPriority ==
    probed.fn = "classify_post_topic" =>
        /\ probed.value =
               IF ProbeGroups = {} THEN "General Traffic Discussion"
               ELSE priority_topics[CHOOSE g \in ProbeGroups :
                                       \A h \in ProbeGroups : g <= h].label
        /\ probed.value \in {"Civic Sense", "Road Rage", "Bad Driving",
                              "Traffic Violations", "Road Safety",
                              "General Traffic Discussion"}

\* C16's case: a text with keywords of two groups got the label of the first,
\* and that text has matched terms of the second group too
C16_Witness ==
    /\ probed.fn = "classify_post_topic"
    /\ {1, 2} \subseteq ProbeGroups
    /\ probed.value = "Civic Sense"
    /\ \E k \in 1..Len(find_matched_terms(Joined(probe.title, probe.selftext))) :
           find_matched_terms(Joined(probe.title, probe.selftext))[k] = road_rage

\* The probe's subreddit, lower-cased, is an allow-listed one; its text names
\* a region
ProbeAllowListed ==
    \E n \in 1..Len(indian_subreddits) : indian_subreddits[n] = Lower(probe.subreddit)

ProbeNamesRegion ==
    \E n \in 1..Len(india_keywords) : Occurs(india_keywords[n], ProbeText)

\* C17: the parser's relevance gate is false with no matched terms; with some
\* it is true for every allow-listed subreddit, compared case-insensitively,
\* and for another subreddit exactly when a region name occurs in
\* lower(title + ' ' + body).  The orchestrator's gate decides the region the
\* same way once a required term occurs.
C17_RegionGate ==
    /\ probed.fn = "is_relevant_post_enhanced" =>
           probed.value = ( /\ probe.matched_terms # <<>>
                            /\ (ProbeAllowListed \/ ProbeNamesRegion) )
    /\ probed.fn = "has_required_terms" =>
           probed.value =
               ( /\ \E j \in 1..Len(required_terms) : Occurs(required_terms[j], ProbeText)
                 /\ (ProbeAllowListed \/ ProbeNamesRegion) )

\* C17's case: r/Bangalore, matched terms, no region name in the text: relevant
C17_Witness ==
    /\ probed.fn = "is_relevant_post_enhanced"
    /\ probe.subreddit # Lower(probe.subreddit)
    /\ probe.matched_terms # <<>>
    /\ ~ProbeNamesRegion
    /\ probed.value = TRUE

Finalizing == pc \in {"finalize", "done"}

\* C22: the running flag is raised only by the start of run, from idle; at
\* the while test an interrupted session and a session past its deadline go
\* to finalization and start no round; once finalization has begun the
\* session stays in it or past it: no round starts, no source call is made,
\* the flag is not raised again, and the accepted list, the tracking sets and
\* the three counters keep their values.
C22_Lifecycle ==
    [][ /\ (~running /\ running') => (pc = "idle" /\ pc' = "loop")
        /\ (pc = "idle" /\ pc' # pc) => (pc' = "loop" /\ running')
        /\ (pc = "loop" /\ pc' # pc /\ (~running \/ now >= end_time))
               => (pc' = "finalize" /\ rounds' = rounds)
        /\ Finalizing =>
               /\ pc' \in {"finalize", "done"}
               /\ pc = "done" => pc' = "done"
               /\ rounds' = rounds
               /\ attempts' = attempts
               /\ running' => running
               /\ Pipeline' = Pipeline
               /\ total_requests' = total_requests ]_vars

\* C22's case: an interrupt stopped a session that had accepted a post, and
\* finalization is over
C22_Witness ==
    /\ pc = "done"
    /\ exit_reason = "interrupt"
    /\ ~running
    /\ rounds >= 1
    /\ Len(scraped_posts) >= 1
    /\ finalized.posts = scraped_posts

\* The last n candidates the pipeline has decided
LastDecided(n) ==
    SubSeq(processed_seq, Len(processed_seq) - n + 1, Len(processed_seq))

\* run reaches one of its exit tests after a round: the break of line 210,
\* then the while test
ExitTest == pc = "process" /\ pc' # pc /\ exit_reason' # "exception"

\* C23: a round that ends, whether its list is used up, an interrupt came or
\* its budget ran out, hands its buffer to the pipeline; the pipeline decides
\* the candidates one by one in buffer order; and run reaches its exit tests
\* only when every candidate of the buffer has been decided.
C23_BufferBeforeExitTest ==
    [][ /\ (pc = "round" /\ pc' \notin {"round", "fetching"})
               => (pc' = "process" /\ post_idx' = 1 /\ new_posts' = new_posts)
        /\ Deciding
               => /\ processed_seq'[Len(processed_seq')].post = new_posts[post_idx]
                  /\ processed_seq'[Len(processed_seq')].round = rounds
                  /\ post_idx' = post_idx + 1
                  /\ new_posts' = new_posts
        /\ ExitTest
               => /\ post_idx = Len(new_posts) + 1
                  /\ Len(processed_seq) >= Len(new_posts)
                  /\ \A n \in 1..Len(new_posts) :
                         /\ LastDecided(Len(new_posts))[n].post = new_posts[n]
                         /\ LastDecided(Len(new_posts))[n].round = rounds ]_vars

\* C23's case: the first round was cut short by an interrupt, the post it had
\* fetched was accepted after the interrupt, and the reports were written
C23_Witness ==
    /\ pc = "done"
    /\ exit_reason = "interrupt"
    /\ rounds = 1
    /\ cfg_idx <= Len(search_strategy)
    /\ Len(new_posts) >= 1
    /\ Len(scraped_posts) >= 1
    /\ report_files = Artifacts

\* C24: a session that has started reaches finalization and ends, whatever
\* the source answers and whether or not an interrupt arrives.
C24_EventuallyFinalized ==
    (pc # "idle") ~> (pc = "done" /\ finalize_calls = 1)

\* C24's case: a session with a call that raised and calls that failed went
\* through two rounds and ended for lack of time, never interrupted
C24_Witness ==
    /\ pc = "done"
    /\ exit_reason = "low_time"
    /\ running
    /\ rounds >= 2
    /\ attempts > total_requests
    /\ scraped_posts = <<>>

\* session.get is being issued
IssuingRequest == request_at = "get" /\ request_at' = "outside"

\* C25: should_rotate_session returns true only with request_count > 0 and
\* request_count divisible by the number it has just drawn in 15..20, hence
\* never for a request_count of 0 to 14; and when it has returned true, the
\* session has a new header set by the time the request is issued.
C25_RotationRule ==
    [][ /\ rotation'.value =>
              /\ rotation'.count > 0
              /\ rotation'.draw \in 15..20
              /\ rotation'.count % rotation'.draw = 0
              /\ rotation'.count \notin 0..14
        /\ (IssuingRequest /\ rotation.value) =>
              /\ rotation.count = request_count
              /\ session_headers = rotation.headers + 1 ]_vars

\* C25's case: at 30 requests the draw was 15, the call returned true, and
\* the request is about to go out with the session's new headers
C25_Witness ==
    /\ request_at = "get"
    /\ rotation.value
    /\ rotation.count = 30
    /\ rotation.draw = 15
    /\ session_headers > rotation.headers

\* run has started
Started == pc # "idle"

\* C26: the start of run sets start_time to the clock and end_time to
\* start_time plus the duration; from then on no step changes either.
C26_DeadlineFixed ==
    [][ /\ (~Started /\ Started') =>
              /\ start_time' = now
              /\ \E d \in Durations : end_time' = start_time' + 60 * d
        /\ Started => (end_time' = end_time /\ start_time' = start_time) ]_vars

\* C26's case: a session that had a call that raised and an interrupt went
\* through two rounds and was finalized a minute or more after its start, with
\* the deadline where the start put it
C26_Witness ==
    /\ pc = "done"
    /\ rounds >= 2
    /\ ~running
    /\ attempts > total_requests
    /\ now >= end_time
    /\ end_time = start_time + 60

\* C27 as stated: the preview_text of every accepted record has at most 200
\* characters.
C27_Original ==
    \A n \in 1..Len(scraped_posts) :
        Len(scraped_posts[n].preview_text) <= PREVIEW_LENGTH

\* C28: the descriptors scrape_posts has been called for in the current round
\* are the first ones of the list, each once, in list order; a call is made
\* only from inside the round, for the descriptor after the last one called;
\* and a round that starts has called for none yet and is at the first
\* descriptor, wherever the round before stopped.
C28_PrefixEachRound ==
    [][ /\ Len(invoked') <= Len(search_strategy')
        /\ \A n \in 1..Len(invoked') : invoked'[n] = n
        /\ (pc' = "fetching" /\ pc # "fetching") =>
               /\ pc = "round"
               /\ invoked' = Append(invoked, Len(invoked) + 1)
               /\ search_strategy'[invoked'[Len(invoked')]] = search_strategy[cfg_idx]
        /\ (pc = "loop" /\ pc' = "round") => (invoked' = <<>> /\ cfg_idx' = 1)
        /\ (pc \notin {"loop", "round"}) => invoked' = invoked ]_vars

\* C28's case: after a first round that went through the whole list, the
\* second round is at its second call, for the second descriptor, in a session
\* where a call has raised
C28_Witness ==
    /\ pc = "fetching"
    /\ rounds = 2
    /\ invoked = <<1, 2>>
    /\ attempts = Len(search_strategy) + 2
    /\ total_requests < attempts - 1

\* The keys of the accepted records
AcceptedHashes == {ContentKey(scraped_posts[n]) : n \in 1..Len(scraped_posts)}

AcceptedUrls ==
    {scraped_posts[n].url : n \in {m \in 1..Len(scraped_posts) : scraped_posts[m].url # ""}}

\* C29: seen_content_hashes is the set of the content hashes of the accepted
\* records and has as many elements as there are accepted records; seen_urls
\* is the set of their non-empty URLs; a candidate turned away, as a duplicate
\* or as irrelevant, leaves the two sets and the accepted list as they were.
C29_IndexIsAcceptedKeys ==
    [][ /\ seen_content_hashes' = AcceptedHashes'
        /\ Cardinality(seen_content_hashes') = Len(scraped_posts')
        /\ seen_urls' = AcceptedUrls'
        /\ (Deciding /\ processed_seq'[Len(processed_seq')].outcome # "accepted")
               => /\ seen_urls' = seen_urls
                  /\ seen_content_hashes' = seen_content_hashes
                  /\ scraped_posts' = scraped_posts ]_vars

\* C29's case: a record was filtered as irrelevant, and a later relevant
\* record with the same URL was accepted; a duplicate was turned away too
C29_Witness ==
    /\ duplicate_count >= 1
    /\ \E n, m \in Decided :
           /\ n < m
           /\ processed_seq[n].outcome = "filtered"
           /\ processed_seq[m].outcome = "accepted"
           /\ processed_seq[n].post.url = processed_seq[m].post.url

\* The post object the probe's child would become
ProbePost ==
    make_post(ProbeChild.data, find_matched_terms(Joined(probe.title, probe.selftext)))

\* C30: the parser emits a child exactly when has_required_terms is true of
\* the post built from it, and the post it emits is that post; and in a
\* session, where every candidate comes from the parser, filtered_count is 0.
C30_GatesAgree ==
    /\ source_pool = {} =>
           (probed.fn = "parse_reddit_response" =>
               /\ (probed.value # <<>>) <=> has_required_terms(ProbePost)
               /\ probed.value # <<>> => probed.value = <<ProbePost>>)
    /\ filtered_count = 0
    /\ \A n \in Decided : has_required_terms(processed_seq[n].post)

\* C30's case: a child whose phrase is completed by its body, in an
\* allow-listed subreddit written in capitals, was emitted by the parser
C30_Witness ==
    /\ probed.fn = "parse_reddit_response"
    /\ probed.value # <<>>
    /\ find_matched_terms(probe.title) = <<>>
    /\ probe.subreddit # Lower(probe.subreddit)
    /\ ~ProbeNamesRegion

====
